---- MODULE Spec2Model ----
(***************************************************************************)
(* Unconstrained MPC controller (naive, optimized and least-squares        *)
(* policies) over the bounded matrix kernel.                               *)
(*                                                                         *)
(* Numbers are exact rationals <<numerator, denominator>>: the control law *)
(* is specified "in exact arithmetic", and floating point rounding is not  *)
(* modelled.  The configuration of konfig.h is instantiated at a reduced   *)
(* size (2 states, 1 input, 1 output, Hp = 3, Hu = 2) that keeps           *)
(* Hp > Hu, Hu*M > M and Hp*Z > Hu*M, as the shipped configuration does.   *)
(***************************************************************************)
EXTENDS Integers, Sequences, FiniteSets, TLC

(* ------------------------- konfig.h ----------------------------------- *)
SS_X_LEN == 2
SS_Z_LEN == 1
SS_U_LEN == 1
MPC_HP_LEN == 3
MPC_HU_LEN == 2
MATRIX_MAXIMUM_SIZE == 6
\* float_prec_ZERO is 1e-8: the model keeps its reciprocal.
float_prec_ZERO_INV == 100000000

(* ------------------------- bounds of the model ------------------------ *)
MaxReInit == 1
MaxUpdate == 2

(* ------------------------- exact rationals ---------------------------- *)
Abs(n) == IF n < 0 THEN -n ELSE n

RECURSIVE Gcd(_, _)
Gcd(a, b) == IF b = 0 THEN a ELSE Gcd(b, a % b)

\* n/d in lowest terms with a positive denominator; g is gcd(|n|, |d|)
Lowest(n, d, g) == IF d < 0 THEN <<-(n \div g), -(d \div g)>> ELSE <<n \div g, d \div g>>
Rat(n, d) == IF d = 1 THEN <<n, 1>> ELSE Lowest(n, d, Gcd(Abs(n), Abs(d)))

RZero == <<0, 1>>
ROne == <<1, 1>>
RInt(n) == <<n, 1>>
RNeg(p) == <<-p[1], p[2]>>
\* p + q over the least common denominator; g is gcd of the denominators
AddOver(p, q, g) ==
    Rat(p[1] * (q[2] \div g) + q[1] * (p[2] \div g), (p[2] \div g) * q[2])
RAdd(p, q) ==
    IF p[1] = 0 THEN q
    ELSE IF q[1] = 0 THEN p
    ELSE IF p[2] = q[2] THEN Rat(p[1] + q[1], p[2])
    ELSE AddOver(p, q, Gcd(p[2], q[2]))
RSub(p, q) == RAdd(p, RNeg(q))
\* p * q with the common factors g1 of p[1], q[2] and g2 of q[1], p[2] cancelled
MulOver(p, q, g1, g2) ==
    <<(p[1] \div g1) * (q[1] \div g2), (p[2] \div g2) * (q[2] \div g1)>>
RMul(p, q) ==
    IF p[1] = 0 \/ q[1] = 0 THEN RZero
    ELSE IF p[2] = 1 /\ q[2] = 1 THEN <<p[1] * q[1], 1>>
    ELSE MulOver(p, q, Gcd(Abs(p[1]), q[2]), Gcd(Abs(q[1]), p[2]))
RInv(p) == IF p[1] < 0 THEN <<-p[2], -p[1]>> ELSE <<p[2], p[1]>>
RDiv(p, q) == RMul(p, RInv(q))
RAbs(p) == <<Abs(p[1]), p[2]>>
RLess(p, q) == p[1] * q[2] < q[1] * p[2]
\* fabs(p) < float_prec_ZERO, without leaving the integer range
RBelowEps(p) ==
    /\ Abs(p[1]) <= (p[2] \div float_prec_ZERO_INV)
    /\ Abs(p[1]) * float_prec_ZERO_INV < p[2]
\* fabs(p) > float_prec_ZERO
RExceedsEps(p) == Abs(p[1]) > (p[2] \div float_prec_ZERO_INV)

SquareOf(k) == k * k
\* the integer square root of n by bisection: lo*lo <= n < hi*hi
RECURSIVE ISqrtFrom(_, _, _)
ISqrtFrom(n, lo, hi) ==
    IF hi - lo <= 1 THEN lo
    ELSE IF SquareOf((lo + hi) \div 2) <= n THEN ISqrtFrom(n, (lo + hi) \div 2, hi)
    ELSE ISqrtFrom(n, lo, (lo + hi) \div 2)
ISqrt(n) == ISqrtFrom(n, 0, IF n < 46340 THEN n + 1 ELSE 46341)
IsSquare(n) == n >= 0 /\ SquareOf(ISqrt(n)) = n
\* sqrt() of a rational whose root is rational
RIsSquare(p) == IsSquare(p[1]) /\ IsSquare(p[2])
RSqrt(p) == <<ISqrt(p[1]), ISqrt(p[2])>>

RECURSIVE RSeqSum(_)
RSeqSum(s) == IF s = <<>> THEN RZero ELSE RAdd(Head(s), RSeqSum(Tail(s)))

(* ------------------------- matrix kernel (matrix.h) ------------------- *)
(* A matrix is a record: logical rows and columns, the validity flag and  *)
(* the entries e[i][j], 1 <= i <= rows, 1 <= j <= cols.  The contents of   *)
(* an invalid matrix are undefined; the model keeps one invalid value.     *)
\* the storage of n values: the sequence s[1], ..., s[n], each computed once
RECURSIVE Stored(_, _)
Stored(s, n) == IF n = 0 THEN <<>> ELSE Append(Stored(s, n - 1), s[n])

MInvalid == [rows |-> 0, cols |-> 0, valid |-> FALSE, e |-> <<>>]

Mat(r, c, f(_, _)) ==
    [rows |-> r, cols |-> c, valid |-> TRUE,
     e |-> Stored([i \in 1..r |-> Stored([j \in 1..c |-> f(i, j)], c)], r)]

\* Matrix(rows, cols): zero-filled, invalid above the capacity
Construct(r, c) ==
    IF r > MATRIX_MAXIMUM_SIZE \/ c > MATRIX_MAXIMUM_SIZE THEN MInvalid
    ELSE Mat(r, c, LAMBDA i, j : RZero)

\* a valid matrix given by integer rows, for the callers' arguments
IntMat(rowsOfInts) ==
    Mat(Len(rowsOfInts), Len(rowsOfInts[1]), LAMBDA i, j : RInt(rowsOfInts[i][j]))

bMatrixIsValid(X) == X.valid

vSetToZero(X) ==
    IF ~X.valid THEN MInvalid ELSE Mat(X.rows, X.cols, LAMBDA i, j : RZero)

vSetDiag(X, v) ==
    IF ~X.valid THEN MInvalid
    ELSE Mat(X.rows, X.cols, LAMBDA i, j : IF i = j THEN v ELSE RZero)

vSetIdentity(X) == vSetDiag(X, ROne)

MAdd(X, Y) ==
    IF ~X.valid \/ ~Y.valid \/ X.rows # Y.rows \/ X.cols # Y.cols THEN MInvalid
    ELSE Mat(X.rows, X.cols, LAMBDA i, j : RAdd(X.e[i][j], Y.e[i][j]))

MSub(X, Y) ==
    IF ~X.valid \/ ~Y.valid \/ X.rows # Y.rows \/ X.cols # Y.cols THEN MInvalid
    ELSE Mat(X.rows, X.cols, LAMBDA i, j : RSub(X.e[i][j], Y.e[i][j]))

\* the sum over t <= k of row[t] * Y[t][j]
RECURSIVE RowTimesColumn(_, _, _, _)
RowTimesColumn(row, Ye, j, k) ==
    IF k = 0 THEN RZero
    ELSE RAdd(RowTimesColumn(row, Ye, j, k - 1), RMul(row[k], Ye[k][j]))

MMul(X, Y) ==
    IF ~X.valid \/ ~Y.valid \/ X.cols # Y.rows THEN MInvalid
    ELSE Mat(X.rows, Y.cols, LAMBDA i, j : RowTimesColumn(X.e[i], Y.e, j, X.cols))

MScale(X, s) ==
    IF ~X.valid THEN MInvalid
    ELSE Mat(X.rows, X.cols, LAMBDA i, j : RMul(X.e[i][j], s))

\* a faulty transpose: the validity of the operand is not looked at
Transpose_Unchecked(X) == Mat(X.cols, X.rows, LAMBDA i, j : X.e[j][i])

Transpose(X) ==
    IF ~X.valid THEN MInvalid
    ELSE Mat(X.cols, X.rows, LAMBDA i, j : X.e[j][i])

\* a faulty insertion: a block that leaves dst is cut to what fits
InsertSubMatrixAt_Clipping(dst, src, dr, dc, sr, sc, nr, nc) ==
    IF \/ ~dst.valid \/ ~src.valid
       \/ dr < 0 \/ dc < 0 \/ sr < 0 \/ sc < 0 \/ nr < 0 \/ nc < 0
       \/ sr + nr > src.rows \/ sc + nc > src.cols
    THEN MInvalid
    ELSE Mat(dst.rows, dst.cols,
             LAMBDA i, j :
                IF i > dr /\ i <= dr + nr /\ j > dc /\ j <= dc + nc
                THEN src.e[i - dr + sr][j - dc + sc]
                ELSE dst.e[i][j])

\* dst.InsertSubMatrix(src, dr, dc, sr, sc, nr, nc): the nr x nc block of src
\* at (sr, sc) copied into dst at (dr, dc); offsets are 0-based as in the code.
InsertSubMatrixAt(dst, src, dr, dc, sr, sc, nr, nc) ==
    IF \/ ~dst.valid \/ ~src.valid
       \/ dr < 0 \/ dc < 0 \/ sr < 0 \/ sc < 0 \/ nr < 0 \/ nc < 0
       \/ dr + nr > dst.rows \/ dc + nc > dst.cols
       \/ sr + nr > src.rows \/ sc + nc > src.cols
    THEN MInvalid
    ELSE Mat(dst.rows, dst.cols,
             LAMBDA i, j :
                IF i > dr /\ i <= dr + nr /\ j > dc /\ j <= dc + nc
                THEN src.e[i - dr + sr][j - dc + sc]
                ELSE dst.e[i][j])

\* dst.InsertSubMatrix(src, dr, dc, nr, nc): the leading nr x nc block of src
InsertSubMatrixBlock(dst, src, dr, dc, nr, nc) ==
    InsertSubMatrixAt(dst, src, dr, dc, 0, 0, nr, nc)

\* dst.InsertSubMatrix(src, dr, dc): the whole of src
InsertSubMatrix(dst, src, dr, dc) ==
    IF ~src.valid THEN MInvalid
    ELSE InsertSubMatrixAt(dst, src, dr, dc, 0, 0, src.rows, src.cols)

(* Invers(): Gauss-Jordan elimination with partial pivoting on [a | b].   *)
RowScale(row, s) == Stored([j \in 1..Len(row) |-> RMul(row[j], s)], Len(row))
RowSubMul(row, prow, f) ==
    Stored([j \in 1..Len(row) |-> RSub(row[j], RMul(f, prow[j]))], Len(row))

\* a faulty pivot choice: the diagonal entry, without a search down the column
PivotRow_NoSearch(a, k, n) == k

\* the first row at or below k whose entry in column k has the largest magnitude
PivotRow(a, k, n) ==
    CHOOSE p \in k..n :
        /\ \A i \in k..n : ~RLess(RAbs(a[p][k]), RAbs(a[i][k]))
        /\ \A i \in k..(p - 1) : RLess(RAbs(a[i][k]), RAbs(a[p][k]))

SwapRows(m, k, p, n) ==
    Stored([i \in 1..n |-> IF i = k THEN m[p] ELSE IF i = p THEN m[k] ELSE m[i]], n)

\* every row of m but the pivot row loses its multiple of the scaled pivot row
Eliminate(m, a, prow, k, n) ==
    Stored([i \in 1..n |-> IF i = k THEN prow ELSE RowSubMul(m[i], prow, a[i][k])], n)

\* the outcome of an elimination as a matrix
AsMatrix(r, rows, cols) ==
    IF r.valid THEN [rows |-> rows, cols |-> cols, valid |-> TRUE, e |-> r.e]
    ELSE MInvalid

RECURSIVE GaussJordan(_, _, _, _)
RECURSIVE PivotStep(_, _, _, _, _)
RECURSIVE EliminateStep(_, _, _, _)

\* column k of [a | b]: the pivot is chosen, tested against the threshold, ...
GaussJordan(a, b, k, n) ==
    IF k > n THEN [valid |-> TRUE, e |-> b]
    ELSE PivotStep(a, b, k, n, PivotRow(a, k, n))

\* ... swapped into row k, ...
PivotStep(a, b, k, n, p) ==
    IF ~RExceedsEps(a[p][k]) THEN [valid |-> FALSE, e |-> <<>>]
    ELSE EliminateStep(SwapRows(a, k, p, n), SwapRows(b, k, p, n), k, n)

\* ... scaled to 1 and eliminated from the other rows
EliminateStep(a1, b1, k, n) ==
    GaussJordan(Eliminate(a1, a1, RowScale(a1[k], RInv(a1[k][k])), k, n),
                Eliminate(b1, a1, RowScale(b1[k], RInv(a1[k][k])), k, n),
                k + 1, n)

Invers(X) ==
    IF ~X.valid \/ X.rows # X.cols THEN MInvalid
    ELSE AsMatrix(GaussJordan(X.e, vSetIdentity(X).e, 1, X.rows), X.rows, X.rows)

(* QRDec(): Householder reflections.  qr is [Qt, R, exact]; exact is FALSE *)
(* when a column norm is irrational, which exact rationals cannot hold.    *)
ColNorm2(R, k) == RSeqSum([i \in 1..(R.rows - k + 1) |->
                              RMul(R.e[i + k - 1][k], R.e[i + k - 1][k])])

\* v = x + sign(x1)*|x|*e1 for the part x of column k at and below the diagonal
HouseholderVector(R, k, alpha) ==
    Stored([i \in 1..R.rows |->
               IF i < k THEN RZero
               ELSE IF i > k THEN R.e[i][k]
               ELSE IF R.e[k][k][1] < 0 THEN RSub(R.e[k][k], alpha)
               ELSE RAdd(R.e[k][k], alpha)],
           R.rows)

\* I - c*v*v'
ReflectorOf(v, c) ==
    Mat(Len(v), Len(v),
        LAMBDA i, j : RSub(IF i = j THEN ROne ELSE RZero, RMul(c, RMul(v[i], v[j]))))

\* the reflector of v: I - 2*v*v'/(v'*v)
ReflectorFrom(v) ==
    ReflectorOf(v, RDiv(RInt(2), RSeqSum([i \in 1..Len(v) |-> RMul(v[i], v[i])])))

Reflector(R, k, alpha) == ReflectorFrom(HouseholderVector(R, k, alpha))

RECURSIVE HouseholderSteps(_, _, _)
RECURSIVE HouseholderColumn(_, _, _, _)
RECURSIVE HouseholderApply(_, _, _, _)

HouseholderSteps(qr, k, last) ==
    IF k > last \/ ~qr.exact THEN qr
    ELSE HouseholderColumn(qr, k, last, ColNorm2(qr.R, k))

\* n2 is the squared norm of column k at and below the diagonal
HouseholderColumn(qr, k, last, n2) ==
    IF n2 = RZero THEN HouseholderSteps(qr, k + 1, last)
    ELSE IF ~RIsSquare(n2) THEN [qr EXCEPT !.exact = FALSE]
    ELSE HouseholderApply(qr, k, last, Reflector(qr.R, k, RSqrt(n2)))

HouseholderApply(qr, k, last, P) ==
    HouseholderSteps([Qt |-> MMul(P, qr.Qt), R |-> MMul(P, qr.R), exact |-> TRUE],
                     k + 1, last)

\* a column of X needs a pivot when it is not entirely zero
ColumnIsZero(X, k) == \A i \in 1..X.rows : X.e[i][k] = RZero

\* the factors are invalid when a diagonal entry of R that needs to be nonzero
\* is below the threshold
QRChecked(X, qr) ==
    IF ~qr.exact THEN qr
    ELSE IF \E k \in 1..X.cols : ~ColumnIsZero(X, k) /\ RBelowEps(qr.R.e[k][k])
         THEN [Qt |-> MInvalid, R |-> MInvalid, exact |-> TRUE]
         ELSE qr

QRDec(X) ==
    IF ~X.valid \/ X.rows < X.cols
    THEN [Qt |-> MInvalid, R |-> MInvalid, exact |-> TRUE]
    ELSE QRChecked(X, HouseholderSteps(
                          [Qt |-> vSetIdentity(Construct(X.rows, X.rows)), R |-> X,
                           exact |-> TRUE],
                          1, IF X.rows - 1 < X.cols THEN X.rows - 1 ELSE X.cols))

(* BackSubtitution(U, b): U*x = b for upper-triangular square U, from the  *)
(* last row upward; xs holds the rows already solved.                      *)
RECURSIVE BackSubRows(_, _, _, _)
BackSubRows(U, b, i, xs) ==
    IF i = 0 THEN [valid |-> TRUE, e |-> xs]
    ELSE IF RBelowEps(U.e[i][i]) THEN [valid |-> FALSE, e |-> <<>>]
    ELSE BackSubRows(U, b, i - 1,
             [xs EXCEPT ![i] =
                 <<RDiv(RSub(b.e[i][1],
                             RSeqSum([t \in 1..(U.cols - i) |->
                                         RMul(U.e[i][i + t], xs[i + t][1])])),
                        U.e[i][i])>>])

BackSubtitution(U, b) ==
    IF \/ ~U.valid \/ ~b.valid
       \/ U.rows # U.cols \/ U.rows # b.rows \/ b.cols # 1
    THEN MInvalid
    ELSE AsMatrix(BackSubRows(U, b, U.rows,
                              Stored([i \in 1..U.rows |-> <<RZero>>], U.rows)),
                  U.rows, 1)

(* ------------------------- class MPC (mpc.h) -------------------------- *)
HPZ == MPC_HP_LEN * SS_Z_LEN
HPN == MPC_HP_LEN * SS_X_LEN
HUM == MPC_HU_LEN * SS_U_LEN

\* the members as their initialisers leave them, before the constructor body
MPCMembers ==
    [CPSI   |-> Construct(HPZ, SS_X_LEN),
     COMEGA |-> Construct(HPZ, SS_U_LEN),
     CTHETA |-> Construct(HPZ, HUM),
     DU     |-> Construct(HUM, 1),
     A      |-> Construct(SS_X_LEN, SS_X_LEN),
     B      |-> Construct(SS_X_LEN, SS_U_LEN),
     C      |-> Construct(SS_Z_LEN, SS_X_LEN),
     Q      |-> Construct(HPZ, HPZ),
     R      |-> Construct(HUM, HUM),
     SQ     |-> Construct(HPZ, HPZ),
     SR     |-> Construct(HUM, HUM),
     XI_DU  |-> Construct(SS_U_LEN, HPZ),
     Qt_L   |-> Construct(HPZ + HUM, HPZ + HUM),
     R_L    |-> Construct(HPZ + HUM, HPZ)]

(* ---- prediction matrices, C folded into every block (mpc_engl) ------- *)
\* for (_i...) { CPSI = CPSI.InsertSubMatrix((C*_Apow), _i*SS_Z_LEN, 0); _Apow = _Apow * A; }
RECURSIVE CPSILoop(_, _, _, _, _)
CPSILoop(CPSI, Apow, A, C, i) ==
    IF i >= MPC_HP_LEN THEN [CPSI |-> CPSI, Apow |-> Apow]
    ELSE CPSILoop(InsertSubMatrix(CPSI, MMul(C, Apow), i * SS_Z_LEN, 0),
                  MMul(Apow, A), A, C, i + 1)

RECURSIVE COMEGALoop(_, _, _, _, _, _, _)
RECURSIVE COMEGANext(_, _, _, _, _, _, _)
\* COMEGA = COMEGA.InsertSubMatrix((C*_tempSigma), _i*SS_Z_LEN, 0); _Apow = _Apow * A;
COMEGALoop(COMEGA, Apow, tempSigma, A, B, C, i) ==
    IF i >= MPC_HP_LEN THEN COMEGA
    ELSE COMEGANext(InsertSubMatrix(COMEGA, MMul(C, tempSigma), i * SS_Z_LEN, 0),
                    MMul(Apow, A), tempSigma, A, B, C, i)
\* _tempSigma = _tempSigma + (_Apow*B);
COMEGANext(COMEGA, Apow, tempSigma, A, B, C, i) ==
    COMEGALoop(COMEGA, Apow, MAdd(tempSigma, MMul(Apow, B)), A, B, C, i + 1)

\* a faulty loop: each block is added to what CTHETA held, not written over it
RECURSIVE CTHETALoop_Accumulating(_, _, _)
CTHETALoop_Accumulating(CTHETA, COMEGA, i) ==
    IF i >= MPC_HU_LEN THEN CTHETA
    ELSE CTHETALoop_Accumulating(
             MAdd(CTHETA,
                  InsertSubMatrixBlock(vSetToZero(CTHETA), COMEGA,
                                       i * SS_Z_LEN, i * SS_U_LEN,
                                       HPZ - i * SS_Z_LEN, SS_U_LEN)),
             COMEGA, i + 1)

RECURSIVE CTHETALoop(_, _, _)
CTHETALoop(CTHETA, COMEGA, i) ==
    IF i >= MPC_HU_LEN THEN CTHETA
    ELSE CTHETALoop(InsertSubMatrixBlock(CTHETA, COMEGA, i * SS_Z_LEN, i * SS_U_LEN,
                                         HPZ - i * SS_Z_LEN, SS_U_LEN),
                    COMEGA, i + 1)

(* ---- naive policy: MPC::vReInit of mpc_engl -------------------------- *)
\* the members written once CPSI and COMEGA are known
NaiveStore(mpc, A, B, C, bobotQ, bobotR, CPSI, COMEGA) ==
    [mpc EXCEPT !.A = A, !.B = B, !.C = C,
                !.Q = vSetDiag(mpc.Q, RInt(bobotQ)),
                !.R = vSetDiag(mpc.R, RInt(bobotR)),
                !.CPSI = CPSI,
                !.COMEGA = COMEGA,
                !.CTHETA = CTHETALoop(mpc.CTHETA, COMEGA, 0)]

\* psi is the outcome of the CPSI loop: CPSI and the _Apow it leaves
NaiveAfterCPSI(mpc, A, B, C, bobotQ, bobotR, psi) ==
    NaiveStore(mpc, A, B, C, bobotQ, bobotR, psi.CPSI,
               COMEGALoop(mpc.COMEGA, vSetIdentity(psi.Apow), B, A, B, C, 0))

vReInit_naive(mpc, A, B, C, bobotQ, bobotR) ==
    NaiveAfterCPSI(mpc, A, B, C, bobotQ, bobotR, CPSILoop(mpc.CPSI, A, A, C, 0))

(* ---- prediction matrices through Cz (mpc_opt_engl, least squares) ---- *)
RECURSIVE PSILoop(_, _, _, _)
PSILoop(PSI, Apow, A, i) ==
    IF i >= MPC_HP_LEN THEN [PSI |-> PSI, Apow |-> Apow]
    ELSE PSILoop(InsertSubMatrix(PSI, Apow, i * SS_X_LEN, 0), MMul(Apow, A), A, i + 1)

RECURSIVE OMEGALoop(_, _, _, _, _, _)
RECURSIVE OMEGANext(_, _, _, _, _, _)
OMEGALoop(OMEGA, Apow, tempSigma, A, B, i) ==
    IF i >= MPC_HP_LEN THEN OMEGA
    ELSE OMEGANext(InsertSubMatrix(OMEGA, tempSigma, i * SS_X_LEN, 0),
                   MMul(Apow, A), tempSigma, A, B, i)
OMEGANext(OMEGA, Apow, tempSigma, A, B, i) ==
    OMEGALoop(OMEGA, Apow, MAdd(tempSigma, MMul(Apow, B)), A, B, i + 1)

RECURSIVE THETALoop(_, _, _)
THETALoop(THETA, OMEGA, i) ==
    IF i >= MPC_HU_LEN THEN THETA
    ELSE THETALoop(InsertSubMatrixBlock(THETA, OMEGA, i * SS_X_LEN, i * SS_U_LEN,
                                        HPN - i * SS_X_LEN, SS_U_LEN),
                   OMEGA, i + 1)

\* a faulty Cz: C on the first diagonal block only
CzLoop_FirstBlock(Cz, C, i) == InsertSubMatrix(Cz, C, 0, 0)

RECURSIVE CzLoop(_, _, _)
CzLoop(Cz, C, i) ==
    IF i >= MPC_HP_LEN THEN Cz
    ELSE CzLoop(InsertSubMatrix(Cz, C, i * SS_Z_LEN, i * SS_X_LEN), C, i + 1)

\* CPSI = Cz*_PSI; COMEGA = Cz*_OMEGA; CTHETA = Cz*_THETA;
CzProducts(Cz, PSI, OMEGA, THETA) ==
    [CPSI |-> MMul(Cz, PSI), COMEGA |-> MMul(Cz, OMEGA), CTHETA |-> MMul(Cz, THETA)]

CzAfterOMEGA(C, PSI, OMEGA) ==
    CzProducts(CzLoop(Construct(HPZ, HPN), C, 0), PSI, OMEGA,
               THETALoop(Construct(HPN, HUM), OMEGA, 0))

CzAfterPSI(A, B, C, psi) ==
    CzAfterOMEGA(C, psi.PSI,
                 OMEGALoop(Construct(HPN, SS_U_LEN), vSetIdentity(psi.Apow), B, A, B, 0))

PredictionCz(A, B, C) ==
    CzAfterPSI(A, B, C, PSILoop(Construct(HPN, SS_X_LEN), A, A, 0))

\* the square root of a weight whose root is rational
SqrtWeight(w) == RSqrt(RInt(w))

\* H = CTHETA'*Q*CTHETA + R
HOf(CTHETA, Q, R) == MAdd(MMul(MMul(Transpose(CTHETA), Q), CTHETA), R)

(* ---- optimized policy: MPC::vReInit of mpc_opt_engl ------------------ *)
\* a faulty gain: the weight Q is left out
XIOf_NoWeight(H_INV, CTHETA, Q) ==
    IF ~bMatrixIsValid(H_INV) THEN vSetToZero(Construct(HUM, HPZ))
    ELSE MMul(H_INV, Transpose(CTHETA))

\* XI = H_INV*CTHETA'*Q, or zero when H has no inverse
XIOf(H_INV, CTHETA, Q) ==
    IF ~bMatrixIsValid(H_INV) THEN vSetToZero(Construct(HUM, HPZ))
    ELSE MMul(MMul(H_INV, Transpose(CTHETA)), Q)

OptStore(mpc, A, B, C, bobotQ, bobotR, Q, R, pm) ==
    [mpc EXCEPT !.A = A, !.B = B, !.C = C, !.Q = Q, !.R = R,
                !.SQ = vSetDiag(mpc.SQ, SqrtWeight(bobotQ)),
                !.SR = vSetDiag(mpc.SR, SqrtWeight(bobotR)),
                !.CPSI = pm.CPSI, !.COMEGA = pm.COMEGA, !.CTHETA = pm.CTHETA,
                !.XI_DU = InsertSubMatrixAt(
                              mpc.XI_DU,
                              XIOf(Invers(HOf(pm.CTHETA, Q, R)), pm.CTHETA, Q),
                              0, 0, 0, 0, SS_U_LEN, HPZ)]

vReInit_opt(mpc, A, B, C, bobotQ, bobotR) ==
    OptStore(mpc, A, B, C, bobotQ, bobotR,
             vSetDiag(mpc.Q, RInt(bobotQ)), vSetDiag(mpc.R, RInt(bobotR)),
             PredictionCz(A, B, C))

(* ---- least-squares policy: MPC::vReInit (second class of the file) --- *)
\* GammaLeft = [SQ*CTHETA; SR], (MPC_HP_LEN*SS_Z_LEN + MPC_HU_LEN*SS_U_LEN) rows
\* and MPC_HP_LEN*SS_Z_LEN columns
\* a faulty stack: SR on top and SQ*CTHETA below it
GammaLeftOf_SRFirst(SQ, SR, CTHETA) ==
    InsertSubMatrix(InsertSubMatrix(Construct(HPZ + HUM, HPZ), SR, 0, 0),
                    MMul(SQ, CTHETA), HUM, 0)

GammaLeftOf(SQ, SR, CTHETA) ==
    InsertSubMatrix(InsertSubMatrix(Construct(HPZ + HUM, HPZ), MMul(SQ, CTHETA), 0, 0),
                    SR, HPZ, 0)

\* GammaLeft.QRDec(Qt_L, R_L)
LsqFactors(m, qr) == [m EXCEPT !.Qt_L = qr.Qt, !.R_L = qr.R]

LsqStore(mpc, A, B, C, SQ, SR, pm) ==
    LsqFactors([mpc EXCEPT !.A = A, !.B = B, !.C = C, !.SQ = SQ, !.SR = SR,
                           !.CPSI = pm.CPSI, !.COMEGA = pm.COMEGA,
                           !.CTHETA = pm.CTHETA],
               QRDec(GammaLeftOf(SQ, SR, pm.CTHETA)))

vReInit_lsq(mpc, A, B, C, bobotQ, bobotR) ==
    LsqStore(mpc, A, B, C,
             vSetDiag(mpc.SQ, SqrtWeight(bobotQ)), vSetDiag(mpc.SR, SqrtWeight(bobotR)),
             PredictionCz(A, B, C))

\* whether exact rationals can hold the factorization of this re-initialization
QRExact(A, B, C, bobotQ, bobotR) ==
    QRDec(GammaLeftOf(vSetDiag(MPCMembers.SQ, SqrtWeight(bobotQ)),
                      vSetDiag(MPCMembers.SR, SqrtWeight(bobotR)),
                      PredictionCz(A, B, C).CTHETA)).exact

(* ------------------------- MPC::bUpdate -------------------------------- *)
\* a faulty tracking error: the previous control has no part in it
ErrOf_NoPreviousControl(mpc, SP, x, u) == MSub(SP, MMul(mpc.CPSI, x))

\* Err = SP - CPSI*x - COMEGA*u
ErrOf(mpc, SP, x, u) == MSub(MSub(SP, MMul(mpc.CPSI, x)), MMul(mpc.COMEGA, u))

\* a faulty copy: the last SS_U_LEN entries of DU instead of the first
DUOutOf_LastRows(DU, junk) ==
    Mat(SS_U_LEN, 1,
        LAMBDA i, j : IF DU.valid /\ DU.rows >= SS_U_LEN /\ DU.cols >= 1
                      THEN DU.e[DU.rows - SS_U_LEN + i][1]
                      ELSE junk[i])

\* Matrix DU_Out(SS_U_LEN, 1); DU_Out[_i][0] = DU[_i][0].  An entry read from
\* an invalid matrix is undefined: junk[i] stands for what the read returns.
DUOutOf(DU, junk) ==
    Mat(SS_U_LEN, 1,
        LAMBDA i, j : IF DU.valid /\ i <= DU.rows /\ DU.cols >= 1 THEN DU.e[i][1]
                      ELSE junk[i])

(* The result of bUpdate holds the controller, the three reference        *)
(* parameters as the call leaves them, the return value and the increment  *)
(* that was added to u.                                                    *)
Failed(mpc, SP, x, u) ==
    [mpc |-> [mpc EXCEPT !.DU = vSetToZero(mpc.DU)],
     SP |-> SP, x |-> x, u |-> u, ret |-> FALSE, du |-> MInvalid]

\* u = u + DU_Out; return true;
Added(mpc, SP, x, u, DU, DU_Out) ==
    [mpc |-> [mpc EXCEPT !.DU = DU],
     SP |-> SP, x |-> x, u |-> MAdd(u, DU_Out), ret |-> TRUE, du |-> DU_Out]

\* a faulty cycle end: the tracking error is left in the caller's SP
AddDU_ErrInSP(mpc, SP, x, u, DU, junk) ==
    LET DU_Out == DUOutOf(DU, junk)
    IN  [mpc |-> [mpc EXCEPT !.DU = DU],
         SP |-> ErrOf(mpc, SP, x, u), x |-> x, u |-> MAdd(u, DU_Out),
         ret |-> TRUE, du |-> DU_Out]

\* the first SS_U_LEN entries of DU are copied to DU_Out and added to u
AddDU(mpc, SP, x, u, DU, junk) == Added(mpc, SP, x, u, DU, DUOutOf(DU, junk))

(* naive policy (mpc_engl): the inverse of H, and DU when H has one *)
\* DU = H_inv*G*0.5
NaiveDU(H_inv, G) == [H_inv |-> H_inv, DU |-> MScale(MMul(H_inv, G), <<1, 2>>)]

\* G = 2.0*CTHETA'*Q*Err; H = CTHETA'*Q*CTHETA + R; H_inv = H.Invers()
SolveDU_naive(mpc, SP, x, u) ==
    NaiveDU(Invers(HOf(mpc.CTHETA, mpc.Q, mpc.R)),
            MMul(MMul(MScale(Transpose(mpc.CTHETA), RInt(2)), mpc.Q),
                 ErrOf(mpc, SP, x, u)))

\* a faulty test: an increment of zero is reported as a failure
FinishDU_naive_FailsOnZero(mpc, SP, x, u, s, junk) ==
    IF ~bMatrixIsValid(s.H_inv) \/ s.DU = vSetToZero(s.DU) THEN Failed(mpc, SP, x, u)
    ELSE AddDU(mpc, SP, x, u, s.DU, junk)

FinishDU_naive(mpc, SP, x, u, s, junk) ==
    IF ~bMatrixIsValid(s.H_inv) THEN Failed(mpc, SP, x, u)
    ELSE AddDU(mpc, SP, x, u, s.DU, junk)

bUpdate_naive(mpc, SP, x, u, junk) ==
    FinishDU_naive(mpc, SP, x, u, SolveDU_naive(mpc, SP, x, u), junk)

\* U = U + DU_Out; return true;
OptAdded(mpc, SP, X, U, DU_Out) ==
    [mpc |-> mpc, SP |-> SP, x |-> X, u |-> MAdd(U, DU_Out), ret |-> TRUE,
     du |-> DU_Out]

\* a faulty cycle: the gain applied to SP alone, without the free response
bUpdate_opt_NoFreeResponse(mpc, SP, X, U) ==
    LET DU_Out == MMul(mpc.XI_DU, SP)
    IN  [mpc |-> mpc, SP |-> SP, x |-> X, u |-> MAdd(U, DU_Out), ret |-> TRUE,
         du |-> DU_Out]

(* optimized policy (mpc_opt_engl) *)
bUpdate_opt(mpc, SP, X, U) ==
    OptAdded(mpc, SP, X, U, MMul(mpc.XI_DU, ErrOf(mpc, SP, X, U)))

\* a faulty solve: the right-hand side without the weight SQ
SolveDU_lsq_Unweighted(mpc, SP, x, u) ==
    LET Err == ErrOf(mpc, SP, x, u)
        Q1 == InsertSubMatrixAt(Construct(HPZ + HUM, HPZ), mpc.Qt_L,
                                0, 0, 0, 0, HPZ + HUM, HPZ)
        BackSubRight == InsertSubMatrixAt(Construct(HUM, 1), MMul(Q1, Err),
                                          0, 0, 0, 0, HUM, 1)
        R1 == InsertSubMatrixAt(Construct(HUM, HUM), mpc.R_L, 0, 0, 0, 0, HUM, HUM)
    IN  BackSubtitution(R1, BackSubRight)

(* least-squares policy (second class of mpc_opt_engl/mpc.cpp): DU by back *)
(* substitution on the persisted factors                                   *)
SolveDU_lsq(mpc, SP, x, u) ==
    LET Err == ErrOf(mpc, SP, x, u)
        Q1 == InsertSubMatrixAt(Construct(HPZ + HUM, HPZ), mpc.Qt_L,
                                0, 0, 0, 0, HPZ + HUM, HPZ)
        Qt_LSQE == MMul(MMul(Q1, mpc.SQ), Err)
        BackSubRight == InsertSubMatrixAt(Construct(HUM, 1), Qt_LSQE,
                                          0, 0, 0, 0, HUM, 1)
        R1 == InsertSubMatrixAt(Construct(HUM, HUM), mpc.R_L, 0, 0, 0, 0, HUM, HUM)
    IN  BackSubtitution(R1, BackSubRight)

FinishDU_lsq(mpc, SP, x, u, DU, junk) ==
    IF ~bMatrixIsValid(mpc.Qt_L) THEN Failed(mpc, SP, x, u)
    ELSE AddDU(mpc, SP, x, u, DU, junk)

bUpdate_lsq(mpc, SP, x, u, junk) ==
    FinishDU_lsq(mpc, SP, x, u, SolveDU_lsq(mpc, SP, x, u), junk)

(* ------------------------- the callers' arguments ---------------------- *)
\* plants and weights handed to the constructor and to vReInit
ArgSet ==
    { \* a regular plant
      [A |-> IntMat(<<<<0, 1>>, <<1, 0>>>>), B |-> IntMat(<<<<1>>, <<0>>>>),
       C |-> IntMat(<<<<1, 0>>>>), q |-> 4, r |-> 1],
      \* another regular plant
      [A |-> IntMat(<<<<1, 0>>, <<0, -1>>>>), B |-> IntMat(<<<<1>>, <<1>>>>),
       C |-> IntMat(<<<<1, 1>>>>), q |-> 1, r |-> 1],
      \* no input authority and no weight on the increments: H is singular
      [A |-> IntMat(<<<<0, 1>>, <<1, 0>>>>), B |-> IntMat(<<<<0>>, <<0>>>>),
       C |-> IntMat(<<<<1, 0>>>>), q |-> 1, r |-> 0],
      \* A of the wrong size: the prediction matrices come out invalid
      [A |-> IntMat(<<<<1>>>>), B |-> IntMat(<<<<1>>, <<0>>>>),
       C |-> IntMat(<<<<1, 0>>>>), q |-> 1, r |-> 1] }

\* setpoint and state handed to bUpdate; the third is at rest (no tracking
\* error while u is zero) and the last SP has the wrong size
CallSet ==
    { [SP |-> IntMat(<<<<1>>, <<1>>, <<1>>>>), x |-> IntMat(<<<<0>>, <<0>>>>)],
      [SP |-> IntMat(<<<<0>>, <<0>>, <<0>>>>), x |-> IntMat(<<<<1>>, <<0>>>>)],
      [SP |-> IntMat(<<<<0>>, <<0>>, <<0>>>>), x |-> IntMat(<<<<0>>, <<0>>>>)],
      [SP |-> IntMat(<<<<1>>, <<1>>>>),        x |-> IntMat(<<<<0>>, <<0>>>>)] }

\* the caller's control vector before the first cycle; the last has the wrong size
U0Set == { IntMat(<<<<0>>>>), IntMat(<<<<0>>, <<0>>>>) }

\* what a read of an undefined entry may return
JunkSet == [1..SS_U_LEN -> {RZero, ROne}]

Policies == {"naive", "opt", "lsq"}

\* the arguments whose square-root factorization stays within the rationals
ExactArgs == {a \in ArgSet : QRExact(a.A, a.B, a.C, a.q, a.r)}

(* ------------------------- sizes of a build ---------------------------- *)
(* The same statements with the entries left out: each matrix is its row   *)
(* and column count and its validity flag, for a configuration k of        *)
(* konfig.h.  An inversion or factorization of a matrix of the right size  *)
(* counts as valid here.                                                   *)
Shape(r, c) == [rows |-> r, cols |-> c, valid |-> TRUE]
NoShape == [rows |-> 0, cols |-> 0, valid |-> FALSE]

ShConstruct(r, c, max) == IF r > max \/ c > max THEN NoShape ELSE Shape(r, c)
ShAdd(X, Y) ==
    IF ~X.valid \/ ~Y.valid \/ X.rows # Y.rows \/ X.cols # Y.cols THEN NoShape ELSE X
ShMul(X, Y) ==
    IF ~X.valid \/ ~Y.valid \/ X.cols # Y.rows THEN NoShape
    ELSE Shape(X.rows, Y.cols)
ShTranspose(X) == IF ~X.valid THEN NoShape ELSE Shape(X.cols, X.rows)
ShInsert(dst, src, dr, dc, nr, nc) ==
    IF \/ ~dst.valid \/ ~src.valid
       \/ dr + nr > dst.rows \/ dc + nc > dst.cols
       \/ nr > src.rows \/ nc > src.cols
    THEN NoShape
    ELSE dst
ShInvers(X) == IF ~X.valid \/ X.rows # X.cols THEN NoShape ELSE X
ShQt(X) == IF ~X.valid \/ X.rows < X.cols THEN NoShape ELSE Shape(X.rows, X.rows)
ShR(X) == IF ~X.valid \/ X.rows < X.cols THEN NoShape ELSE X
ShBackSub(U, b) ==
    IF ~U.valid \/ ~b.valid \/ U.rows # U.cols \/ U.rows # b.rows \/ b.cols # 1
    THEN NoShape
    ELSE Shape(U.rows, 1)

\* the matrices a build names; "t1", "t2" hold the values of subexpressions
\* and "-" stands for no operand
MatrixNames ==
    {"CPSI", "COMEGA", "CTHETA", "DU", "A", "B", "C", "Q", "R", "SQ", "SR", "XI_DU",
     "Qt_L", "R_L", "argA", "argB", "argC", "SP", "x", "u",
     "_Apow", "_tempSigma", "_PSI", "_OMEGA", "_THETA", "Cz", "H", "H_INV", "XI",
     "GammaLeft", "Err", "G", "DU_Out", "Q1", "Qt_LSQE", "BackSubRight", "R1",
     "t1", "t2", "-"}

\* one statement: dst = a op b, with the integers of the call in n
St(o, dst, a, b, n) == [op |-> o, dst |-> dst, a |-> a, b |-> b, n |-> n]
Decl(dst, r, c) == St("decl", dst, "-", "-", <<r, c>>)
Copy(dst, a) == St("copy", dst, a, "-", <<>>)
Keep(dst) == St("copy", dst, dst, "-", <<>>)
Add(dst, a, b) == St("add", dst, a, b, <<>>)
Mul(dst, a, b) == St("mul", dst, a, b, <<>>)
Transp(dst, a) == St("transpose", dst, a, "-", <<>>)
Ins(dst, src, dr, dc) == St("insert", dst, dst, src, <<dr, dc>>)
InsBlock(dst, src, dr, dc, nr, nc) == St("insertblock", dst, dst, src, <<dr, dc, nr, nc>>)

\* the matrix a statement leaves in its destination
Result(env, st, max) ==
    CASE st.op = "decl" -> ShConstruct(st.n[1], st.n[2], max)
      [] st.op = "copy" -> env[st.a]
      [] st.op = "add" -> ShAdd(env[st.a], env[st.b])
      [] st.op = "mul" -> ShMul(env[st.a], env[st.b])
      [] st.op = "transpose" -> ShTranspose(env[st.a])
      [] st.op = "insert" ->
            ShInsert(env[st.a], env[st.b], st.n[1], st.n[2],
                     env[st.b].rows, env[st.b].cols)
      [] st.op = "insertblock" ->
            ShInsert(env[st.a], env[st.b], st.n[1], st.n[2], st.n[3], st.n[4])
      [] st.op = "invers" -> ShInvers(env[st.a])
      [] st.op = "qt" -> ShQt(env[st.a])
      [] st.op = "r" -> ShR(env[st.a])
      [] st.op = "backsub" -> ShBackSub(env[st.a], env[st.b])

\* a run: the matrices by name and, for every statement executed, the
\* statement with its operands and its result
Logged(run, st, res) ==
    [env |-> [run.env EXCEPT ![st.dst] = res],
     log |-> run.log \cup {[st |-> st, into |-> run.env[st.a],
                            from |-> run.env[st.b], res |-> res]}]
Step(run, st, max) == Logged(run, st, Result(run.env, st, max))

\* the statements of prog from the i-th on, in order
RECURSIVE RunProg(_, _, _, _)
RunRest(next, prog, i, max) ==
    IF next.log = {} THEN next ELSE RunProg(next, prog, i + 1, max)
RunProg(run, prog, i, max) ==
    IF i > Len(prog) THEN run
    ELSE RunRest(Step(run, prog[i], max), prog, i, max)

\* a program with a validity test: head, then pass or fail
Branch(run, pr, max) ==
    IF run.env[pr.test].valid THEN RunProg(run, pr.pass, 1, max)
    ELSE RunProg(run, pr.fail, 1, max)
RunBranch(run, pr, max) == Branch(RunProg(run, pr.head, 1, max), pr, max)

RECURSIVE Flatten(_, _)
Flatten(ss, i) == IF i > Len(ss) THEN <<>> ELSE ss[i] \o Flatten(ss, i + 1)

HPZof(k) == k.HP * k.Z
HPNof(k) == k.HP * k.N
HUMof(k) == k.HU * k.M

\* the callers' matrices, of the sizes the interface asks for
Arguments(k) ==
    << Decl("argA", k.N, k.N), Decl("argB", k.N, k.M), Decl("argC", k.Z, k.N),
       Decl("SP", HPZof(k), 1), Decl("x", k.N, 1), Decl("u", k.M, 1) >>

\* class MPC: the members
Members(k) ==
    << Decl("CPSI", HPZof(k), k.N), Decl("COMEGA", HPZof(k), k.M),
       Decl("CTHETA", HPZof(k), HUMof(k)), Decl("DU", HUMof(k), 1),
       Decl("A", k.N, k.N), Decl("B", k.N, k.M), Decl("C", k.Z, k.N),
       Decl("Q", HPZof(k), HPZof(k)), Decl("R", HUMof(k), HUMof(k)),
       Decl("SQ", HPZof(k), HPZof(k)), Decl("SR", HUMof(k), HUMof(k)),
       Decl("XI_DU", k.M, HPZof(k)) >>
\* this->A = A; this->B = B; this->C = C;
StorePlant == << Copy("A", "argA"), Copy("B", "argB"), Copy("C", "argC") >>

\* a faulty loop: every column block takes all of COMEGA
ThetaColumn_FullHeight(k, i) ==
    InsBlock("CTHETA", "COMEGA", (i - 1) * k.Z, (i - 1) * k.M, HPZof(k), k.M)

\* CTHETA = CTHETA.InsertSubMatrix(COMEGA, _i*SS_Z_LEN, _i*SS_U_LEN,
\*                                 (MPC_HP_LEN*SS_Z_LEN)-(_i*SS_Z_LEN), SS_U_LEN);
ThetaColumn(k, i) ==
    InsBlock("CTHETA", "COMEGA", (i - 1) * k.Z, (i - 1) * k.M,
             HPZof(k) - (i - 1) * k.Z, k.M)

\* mpc_engl: C folded into every block
FoldedSizes(k) ==
    << Keep("Q"), Keep("R"), Decl("_Apow", k.N, k.N), Copy("_Apow", "argA") >>
    \o Flatten([i \in 1..k.HP |->
                  << Mul("t1", "argC", "_Apow"), Ins("CPSI", "t1", (i - 1) * k.Z, 0),
                     Mul("_Apow", "_Apow", "argA") >>], 1)
    \o << Decl("_tempSigma", k.N, k.M), Keep("_Apow"), Copy("_tempSigma", "argB") >>
    \o Flatten([i \in 1..k.HP |->
                  << Mul("t1", "argC", "_tempSigma"),
                     Ins("COMEGA", "t1", (i - 1) * k.Z, 0),
                     Mul("_Apow", "_Apow", "argA"), Mul("t1", "_Apow", "argB"),
                     Add("_tempSigma", "_tempSigma", "t1") >>], 1)
    \o [i \in 1..k.HU |-> ThetaColumn(k, i)]

\* mpc_opt_engl: _PSI, _OMEGA, _THETA and Cz
ThroughCzSizes(k) ==
    << Decl("_PSI", HPNof(k), k.N), Decl("_OMEGA", HPNof(k), k.M),
       Decl("_THETA", HPNof(k), HUMof(k)),
       Decl("_Apow", k.N, k.N), Copy("_Apow", "argA") >>
    \o Flatten([i \in 1..k.HP |->
                  << Ins("_PSI", "_Apow", (i - 1) * k.N, 0),
                     Mul("_Apow", "_Apow", "argA") >>], 1)
    \o << Decl("_tempSigma", k.N, k.M), Keep("_Apow"), Copy("_tempSigma", "argB") >>
    \o Flatten([i \in 1..k.HP |->
                  << Ins("_OMEGA", "_tempSigma", (i - 1) * k.N, 0),
                     Mul("_Apow", "_Apow", "argA"), Mul("t1", "_Apow", "argB"),
                     Add("_tempSigma", "_tempSigma", "t1") >>], 1)
    \o [i \in 1..k.HU |->
          InsBlock("_THETA", "_OMEGA", (i - 1) * k.N, (i - 1) * k.M,
                   HPNof(k) - (i - 1) * k.N, k.M)]
    \o << Decl("Cz", HPZof(k), HPNof(k)) >>
    \o [i \in 1..k.HP |-> Ins("Cz", "argC", (i - 1) * k.Z, (i - 1) * k.N)]
    \o << Mul("CPSI", "Cz", "_PSI"), Mul("COMEGA", "Cz", "_OMEGA"),
          Mul("CTHETA", "Cz", "_THETA") >>

\* H = ((CTHETA.Transpose()) * Q * CTHETA) + R;
HSizes ==
    << Transp("t1", "CTHETA"), Mul("t1", "t1", "Q"), Mul("t1", "t1", "CTHETA"),
       Add("H", "t1", "R") >>

\* Err = SP - CPSI*x - COMEGA*u;
ErrSizes(k) ==
    << Decl("Err", HPZof(k), 1), Mul("t1", "CPSI", "x"), Add("t2", "SP", "t1"),
       Mul("t1", "COMEGA", "u"), Add("Err", "t2", "t1") >>

\* Matrix DU_Out(SS_U_LEN, 1); ...; u = u + DU_Out;
IntegrateSizes(k) == << Decl("DU_Out", k.M, 1), Add("u", "u", "DU_Out") >>

Straight(prog) == [head |-> prog, test |-> "-", pass |-> <<>>, fail |-> <<>>]

\* MPC::vReInit of the class p
ReInitSizes(p, k) ==
    CASE p = "naive" -> Straight(StorePlant \o FoldedSizes(k))
      [] p = "opt" ->
            [head |-> StorePlant
                      \o << Keep("Q"), Keep("R"), Keep("SQ"), Keep("SR") >>
                      \o ThroughCzSizes(k)
                      \o << Decl("H", HUMof(k), HUMof(k)),
                            Decl("H_INV", HUMof(k), HUMof(k)),
                            Decl("XI", HUMof(k), HPZof(k)) >>
                      \o HSizes
                      \o << St("invers", "H_INV", "H", "-", <<>>) >>,
             test |-> "H_INV",
             pass |-> << Transp("t1", "CTHETA"), Mul("t1", "H_INV", "t1"),
                         Mul("XI", "t1", "Q"),
                         InsBlock("XI_DU", "XI", 0, 0, k.M, HPZof(k)) >>,
             fail |-> << Keep("XI"), InsBlock("XI_DU", "XI", 0, 0, k.M, HPZof(k)) >>]
      [] p = "lsq" ->
            Straight(StorePlant \o << Keep("SQ"), Keep("SR") >> \o ThroughCzSizes(k)
                     \o << Decl("GammaLeft", HPZof(k) + HUMof(k), HPZof(k)),
                           Mul("t1", "SQ", "CTHETA"), Ins("GammaLeft", "t1", 0, 0),
                           Ins("GammaLeft", "SR", HPZof(k), 0),
                           St("qt", "Qt_L", "GammaLeft", "-", <<>>),
                           St("r", "R_L", "GammaLeft", "-", <<>>) >>)

\* MPC::bUpdate of the class p
UpdateSizes(p, k) ==
    CASE p = "naive" ->
            [head |-> << Decl("Err", HPZof(k), 1), Decl("G", HUMof(k), 1),
                         Decl("H", HUMof(k), HUMof(k)) >>
                      \o ErrSizes(k)
                      \o << Transp("t1", "CTHETA"), Mul("t1", "t1", "Q"),
                            Mul("G", "t1", "Err") >>
                      \o HSizes
                      \o << St("invers", "H_INV", "H", "-", <<>>) >>,
             test |-> "H_INV",
             pass |-> << Mul("t1", "H_INV", "G"), Copy("DU", "t1") >>
                      \o IntegrateSizes(k),
             fail |-> << Keep("DU") >>]
      [] p = "opt" ->
            Straight(ErrSizes(k)
                     \o << Decl("DU_Out", k.M, 1), Mul("DU_Out", "XI_DU", "Err"),
                           Add("u", "u", "DU_Out") >>)
      [] p = "lsq" ->
            [head |-> ErrSizes(k),
             test |-> "Qt_L",
             pass |-> << Decl("Q1", HPZof(k) + HUMof(k), HPZof(k)),
                         InsBlock("Q1", "Qt_L", 0, 0, HPZof(k) + HUMof(k), HPZof(k)),
                         Decl("Qt_LSQE", HPZof(k) + HUMof(k), 1),
                         Mul("t1", "Q1", "SQ"), Mul("Qt_LSQE", "t1", "Err"),
                         Decl("BackSubRight", HUMof(k), 1),
                         InsBlock("BackSubRight", "Qt_LSQE", 0, 0, HUMof(k), 1),
                         Decl("R1", HUMof(k), HUMof(k)),
                         InsBlock("R1", "R_L", 0, 0, HUMof(k), HUMof(k)),
                         St("backsub", "DU", "R1", "BackSubRight", <<>>) >>
                      \o IntegrateSizes(k),
             fail |-> << Keep("DU") >>]

\* before the constructor runs: nothing but the callers' matrices
NoRun == [env |-> [m \in MatrixNames |-> NoShape], log |-> {}]

\* MPC::MPC: the members are constructed, then vReInit runs
ConstructedRun(p, k) ==
    RunBranch(RunProg(NoRun, Arguments(k) \o Members(k), 1, k.MAX),
              ReInitSizes(p, k), k.MAX)

(* ------------------------- the state machine --------------------------- *)
VARIABLES
    policy,   \* the implementation that was built
    mpc,      \* the MPC object
    SP, x, u, \* the caller's matrices, as the last call left them
    ret,      \* what the last bUpdate returned
    op,       \* the last operation: "init", "reinit" or "update"
    args,     \* the arguments of the last (re-)initialization
    call,     \* SP, x and u as the last bUpdate received them
    du,       \* the increment the last bUpdate added to u
    repeated, \* the last vReInit had the arguments of the one right before it
    nReInit, nUpdate,
    cfg,      \* the configuration the translation unit is built with
    phase,    \* "source", "rejected", "built", "constructed" or "updated"
    unit,     \* the implementation the translation unit holds
    run,      \* the sizes of the matrices the program has made so far
    kOp,      \* the last matrix operation applied
    kArg,     \* its integer arguments
    kX, kY,   \* its operands
    kRes,     \* its result
    kRes2,    \* its second result (R of QRDec)
    kN        \* the number of operations applied

mpcVars == <<policy, mpc, SP, x, u, ret, op, args, call, du, repeated, nReInit, nUpdate>>
buildVars == <<cfg, phase, unit, run>>
kernelVars == <<kOp, kArg, kX, kY, kRes, kRes2, kN>>
vars == <<mpcVars, buildVars, kernelVars>>

\* konfig.h as this model instantiates it
Konfig ==
    [HP |-> MPC_HP_LEN, HU |-> MPC_HU_LEN, N |-> SS_X_LEN, Z |-> SS_Z_LEN,
     M |-> SS_U_LEN, MAX |-> MATRIX_MAXIMUM_SIZE]

\* the controller's translation unit was built with Konfig and an object constructed
BuildDone ==
    /\ cfg = Konfig /\ phase = "constructed"
    /\ unit = policy /\ run = ConstructedRun(policy, Konfig)

\* no matrix operation is under test
KernelIdle ==
    /\ kOp = "none" /\ kArg = <<>>
    /\ kX = MInvalid /\ kY = MInvalid /\ kRes = MInvalid /\ kRes2 = MInvalid
    /\ kN = 0

\* MPC::MPC(A, B, C, _bobotQ, _bobotR) { vReInit(A, B, C, _bobotQ, _bobotR); }
Constructed(p, a) ==
    CASE p = "naive" -> vReInit_naive(MPCMembers, a.A, a.B, a.C, a.q, a.r)
      [] p = "opt"   -> vReInit_opt(MPCMembers, a.A, a.B, a.C, a.q, a.r)
      [] p = "lsq"   -> vReInit_lsq(MPCMembers, a.A, a.B, a.C, a.q, a.r)

NoCall == [SP |-> MInvalid, x |-> MInvalid, u |-> MInvalid]

Init ==
    /\ policy \in Policies
    /\ args \in ArgSet
    /\ policy = "lsq" => args \in ExactArgs
    /\ mpc = Constructed(policy, args)
    /\ u \in U0Set
    /\ SP = MInvalid /\ x = MInvalid
    /\ ret = FALSE /\ op = "init" /\ call = NoCall /\ du = MInvalid
    /\ repeated = FALSE
    /\ nReInit = 0 /\ nUpdate = 0
    /\ BuildDone /\ KernelIdle

\* m is the controller as vReInit(a.A, a.B, a.C, a.q, a.r) leaves it
ReInitStep(a, m) ==
    /\ mpc' = m
    /\ args' = a
    /\ op' = "reinit"
    /\ repeated' = (op # "update" /\ a = args)
    /\ nReInit' = nReInit + 1
    /\ UNCHANGED <<policy, SP, x, u, ret, call, du, nUpdate>>
    /\ UNCHANGED <<buildVars, kernelVars>>

ReInitNaive ==
    /\ policy = "naive" /\ nReInit < MaxReInit
    /\ \E a \in ArgSet : ReInitStep(a, vReInit_naive(mpc, a.A, a.B, a.C, a.q, a.r))

ReInitOpt ==
    /\ policy = "opt" /\ nReInit < MaxReInit
    /\ \E a \in ArgSet : ReInitStep(a, vReInit_opt(mpc, a.A, a.B, a.C, a.q, a.r))

ReInitLsq ==
    /\ policy = "lsq" /\ nReInit < MaxReInit
    /\ \E a \in ExactArgs : ReInitStep(a, vReInit_lsq(mpc, a.A, a.B, a.C, a.q, a.r))

\* r is the outcome of bUpdate(c.SP, c.x, u)
UpdateStep(c, r) ==
    /\ call' = [SP |-> c.SP, x |-> c.x, u |-> u]
    /\ mpc' = r.mpc /\ SP' = r.SP /\ x' = r.x /\ u' = r.u
    /\ ret' = r.ret /\ du' = r.du
    /\ op' = "update"
    /\ repeated' = FALSE
    /\ nUpdate' = nUpdate + 1
    /\ UNCHANGED <<policy, args, nReInit>>
    /\ UNCHANGED <<buildVars, kernelVars>>

\* s is what bUpdate computes before it reads DU
UpdateNaiveFrom(c, s) ==
    \E junk \in JunkSet : UpdateStep(c, FinishDU_naive(mpc, c.SP, c.x, u, s, junk))

UpdateNaive ==
    /\ policy = "naive" /\ nUpdate < MaxUpdate
    /\ \E c \in CallSet : UpdateNaiveFrom(c, SolveDU_naive(mpc, c.SP, c.x, u))

UpdateOpt ==
    /\ policy = "opt" /\ nUpdate < MaxUpdate
    /\ \E c \in CallSet : UpdateStep(c, bUpdate_opt(mpc, c.SP, c.x, u))

UpdateLsqFrom(c, DU) ==
    \E junk \in JunkSet : UpdateStep(c, FinishDU_lsq(mpc, c.SP, c.x, u, DU, junk))

UpdateLsq ==
    /\ policy = "lsq" /\ nUpdate < MaxUpdate
    /\ \E c \in CallSet : UpdateLsqFrom(c, SolveDU_lsq(mpc, c.SP, c.x, u))

Next ==
    \/ ReInitNaive \/ ReInitOpt \/ ReInitLsq
    \/ UpdateNaive \/ UpdateOpt \/ UpdateLsq

Spec == Init /\ [][Next]_vars

(* ------------------------- vocabulary of the properties ---------------- *)
IsShape(X, r, c) == X.valid /\ X.rows = r /\ X.cols = c

\* SP, x and u of the last bUpdate had the configured shapes
SizedCall ==
    /\ IsShape(call.SP, HPZ, 1)
    /\ IsShape(call.x, SS_X_LEN, 1)
    /\ IsShape(call.u, SS_U_LEN, 1)

\* the offline artifacts: every member but the scratch DU
Artifacts(m) == [m EXCEPT !.DU = MInvalid]

\* H as the controller m holds it, and whether it has an inverse
HInvertible(m) == bMatrixIsValid(Invers(HOf(m.CTHETA, m.Q, m.R)))

\* the state Degraded: no gain (naive, optimized) or no factorization (least squares)
Degraded(p, m) ==
    IF p = "lsq" THEN ~bMatrixIsValid(m.Qt_L) ELSE ~HInvertible(m)

\* Err of the last bUpdate; bUpdate leaves CPSI and COMEGA as they were
LastErr == ErrOf(mpc, call.SP, call.x, call.u)

\* the first SS_U_LEN rows of DU
FirstRows(DU) == Mat(SS_U_LEN, 1, LAMBDA i, j : DU.e[i][1])

(* ------------------------- C1 ------------------------------------------ *)
(* C1: in every policy, when bUpdate returns true the control vector on    *)
(* return is the control vector on entry plus the increment du, and du is  *)
(* the first SS_U_LEN entries of the computed DU (XI_DU*Err in the         *)
(* optimized policy); the other entries of DU have no part in u.           *)
C1_FirstIncrementAdded ==
    (op = "update" /\ ret = TRUE) =>
        /\ u = MAdd(call.u, du)
        /\ policy = "opt" => du = MMul(mpc.XI_DU, LastErr)
        /\ (policy # "opt" /\ bMatrixIsValid(mpc.DU)) => du = FirstRows(mpc.DU)

\* a successful naive or least-squares cycle that moved u, with a nonzero
\* increment further down the horizon
C1_Witness ==
    /\ op = "update" /\ ret = TRUE /\ policy # "opt"
    /\ IsShape(u, SS_U_LEN, 1) /\ u # call.u
    /\ IsShape(mpc.DU, HUM, 1)
    /\ mpc.DU.e[HUM][1] # RZero

(* ------------------------- C2 ------------------------------------------ *)
(* C2: in all three policies, while the controller is Degraded every       *)
(* bUpdate returns false and leaves the control vector as it was on entry. *)
C2_DegradedUpdateFails ==
    (op = "update" /\ Degraded(policy, mpc)) => (ret = FALSE /\ u = call.u)

(* ------------------------- C3 ------------------------------------------ *)
\* a matrix computed inside the last bUpdate was invalid
InvalidInside ==
    \/ ~bMatrixIsValid(LastErr)
    \/ policy = "naive" /\
          LET s == SolveDU_naive(mpc, call.SP, call.x, call.u)
          IN  ~bMatrixIsValid(s.H_inv) \/ ~bMatrixIsValid(s.DU)
    \/ policy = "opt" /\ ~bMatrixIsValid(MMul(mpc.XI_DU, LastErr))
    \/ policy = "lsq" /\
          (~bMatrixIsValid(mpc.Qt_L)
             \/ ~bMatrixIsValid(SolveDU_lsq(mpc, call.SP, call.x, call.u)))

(* C3: whenever a matrix computed inside bUpdate is invalid (SP, x or u of *)
(* the wrong dimensions, an invalid prediction matrix, a failed inversion  *)
(* or back-substitution) bUpdate returns false.                            *)
C3_InvalidMeansFalse ==
    (op = "update" /\ InvalidInside) => ret = FALSE

(* ------------------------- C4 ------------------------------------------ *)
(* C4: after any bUpdate that was handed a valid SS_U_LEN x 1 control      *)
(* vector, u is a valid SS_U_LEN x 1 matrix, equal to its value on entry   *)
(* or to that value plus the first SS_U_LEN entries of a valid DU; it is   *)
(* never invalid and never built from entries of an invalid matrix.        *)
C4_ControlStaysValid ==
    (op = "update" /\ IsShape(call.u, SS_U_LEN, 1)) =>
        /\ IsShape(u, SS_U_LEN, 1)
        /\ \/ u = call.u
           \/ /\ bMatrixIsValid(du)
              /\ policy # "opt" => bMatrixIsValid(mpc.DU)
              /\ u = MAdd(call.u, du)

(* ------------------------- C5 ------------------------------------------ *)
\* what policy p returns for the last call from a controller constructed with
\* the arguments of the last (re-)initialization
Reference(p, junk) ==
    LET m == Constructed(p, args)
    IN  CASE p = "naive" -> bUpdate_naive(m, call.SP, call.x, call.u, junk)
          [] p = "opt"   -> bUpdate_opt(m, call.SP, call.x, call.u)
          [] p = "lsq"   -> bUpdate_lsq(m, call.SP, call.x, call.u, junk)

OtherOf(p) == IF p = "naive" THEN "opt" ELSE "naive"

(* C5: for SP, x and u of the configured shapes and H invertible, bUpdate  *)
(* of the naive and of the optimized policy, given the same A, B, C,       *)
(* weights, SP, x and u, add the same increment and return the same u.     *)
C5_NaiveEqualsOptimized ==
    (op = "update" /\ policy \in {"naive", "opt"} /\ SizedCall /\ HInvertible(mpc)) =>
        \A junk \in JunkSet :
            LET other == Reference(OtherOf(policy), junk)
            IN  other.ret = ret /\ other.du = du /\ other.u = u

\* an optimized cycle with an invertible H that moved u
C5_Witness ==
    /\ op = "update" /\ policy = "opt" /\ SizedCall /\ HInvertible(mpc)
    /\ du # Construct(SS_U_LEN, 1)
    /\ u # call.u

(* ------------------------- C6 ------------------------------------------ *)
\* the plant and weights of the last (re-)initialization give an invertible H
WellConditioned == HInvertible(Constructed("naive", args))

C7_FailedGainHoldsControl ==
    (policy = "opt" /\ ~HInvertible(mpc)) =>
        /\ mpc.XI_DU = Construct(SS_U_LEN, HPZ)
        /\ (op = "update" /\ SizedCall) =>
              (du = Construct(SS_U_LEN, 1) /\ u = call.u)

(* ------------------------- C8 ------------------------------------------ *)
\* a controller constructed with a has valid prediction matrices and a valid
\* gain or factorization
YieldsInitialized(p, a) ==
    LET m == Constructed(p, a)
    IN  /\ bMatrixIsValid(m.CPSI) /\ bMatrixIsValid(m.COMEGA)
        /\ bMatrixIsValid(m.CTHETA)
        /\ ~Degraded(p, m)

(* C8: the state of the controller depends only on the arguments of the    *)
(* last (re-)initialization: when these yield valid prediction matrices    *)
(* and a valid gain or factorization the controller is Initialized and its *)
(* offline artifacts are those of a controller constructed with them,      *)
(* whatever preceded, and no bUpdate changes this.                         *)
C8_ReInitDependsOnArgsOnly ==
    YieldsInitialized(policy, args) =>
        /\ ~Degraded(policy, mpc)
        /\ Artifacts(mpc) = Artifacts(Constructed(policy, args))

(* ------------------------- C9 ------------------------------------------ *)
(* C9: a vReInit that follows a (re-)initialization with the same          *)
(* arguments leaves every offline artifact as the first call left it.      *)
C9_ReInitIdempotent ==
    [][(nReInit' # nReInit /\ op # "update" /\ args' = args)
          => Artifacts(mpc') = Artifacts(mpc)]_vars

\* after a repeated vReInit of a controller with valid prediction matrices
C9_Witness ==
    /\ op = "reinit" /\ repeated
    /\ bMatrixIsValid(mpc.CPSI) /\ bMatrixIsValid(mpc.CTHETA)
    /\ mpc.CTHETA # Construct(HPZ, HUM)

(* ------------------------- C10 ----------------------------------------- *)
(* C10: bUpdate changes the caller's u and the scratch DU only: SP, x, the *)
(* plant, the weights, CPSI, COMEGA, CTHETA and the gain or the QR factors *)
(* are after the call what they were before it.                            *)
C10_UpdateFrame ==
    [][nUpdate' # nUpdate =>
          /\ Artifacts(mpc') = Artifacts(mpc)
          /\ SP' = call'.SP /\ x' = call'.x
          /\ call'.u = u]_vars

\* after a cycle that wrote both u and DU
C10_Witness ==
    /\ op = "update" /\ ret = TRUE
    /\ IsShape(u, SS_U_LEN, 1) /\ u # call.u
    /\ SP = call.SP /\ x = call.x
    /\ policy = "opt" \/ IsShape(mpc.DU, HUM, 1)

(* ------------------------- building the controller (mpc.h) ------------- *)
\* konfig.h as the repository ships it
Shipped == [HP |-> 7, HU |-> 4, N |-> 4, Z |-> 2, M |-> 2, MAX |-> 28]

\* the configurations a konfig.h may hold
ConfigSet ==
    [HP : 1..3, HU : 1..3, N : 1..2, Z : 1..2, M : 1..2, MAX : {2, 4, 6}]
       \cup {Shipped}

\* a faulty header: the capacity check leaves out MPC_HP_LEN*SS_X_LEN
HeaderAccepts_NoStateCheck(k) ==
    /\ ~(k.HP < k.HU)
    /\ ~((k.HP * k.Z > k.MAX) \/ (k.HU * k.M > k.MAX))

\* #if (MPC_HP_LEN < MPC_HU_LEN) #error ...; #if ((MPC_HP_LEN*SS_Z_LEN) >
\* MATRIX_MAXIMUM_SIZE) || ... #error ...: the header compiles when no #error is met
HeaderAccepts(k) ==
    /\ ~(k.HP < k.HU)
    /\ ~((k.HP * k.Z > k.MAX) \/ (k.HP * k.N > k.MAX) \/ (k.HU * k.M > k.MAX))

\* no controller object exists: its members are as their initialisers leave them
NoController ==
    /\ policy = "opt" /\ mpc = MPCMembers /\ args = [A |-> MInvalid]
    /\ SP = MInvalid /\ x = MInvalid /\ u = MInvalid
    /\ ret = FALSE /\ op = "none" /\ call = NoCall /\ du = MInvalid
    /\ repeated = FALSE /\ nReInit = 0 /\ nUpdate = 0

BuildInit ==
    /\ cfg \in ConfigSet /\ phase = "source"
    /\ unit \in Policies /\ run = NoRun
    /\ KernelIdle /\ NoController

\* the compiler reads mpc.h
Compile ==
    /\ phase = "source"
    /\ phase' = IF HeaderAccepts(cfg) THEN "built" ELSE "rejected"
    /\ UNCHANGED <<cfg, unit, run, mpcVars, kernelVars>>

\* a program that was built constructs its controller ...
RunConstruct ==
    /\ phase = "built"
    /\ phase' = "constructed"
    /\ run' = ConstructedRun(unit, cfg)
    /\ UNCHANGED <<cfg, unit, mpcVars, kernelVars>>

\* ... and calls bUpdate
RunUpdate ==
    /\ phase \in {"constructed", "updated"}
    /\ phase' = "updated"
    /\ run' = RunBranch(run, UpdateSizes(unit, cfg), cfg.MAX)
    /\ UNCHANGED <<cfg, unit, mpcVars, kernelVars>>

BuildNext == Compile \/ RunConstruct \/ RunUpdate

BuildSpec == BuildInit /\ [][BuildNext]_vars

(* ------------------------- C11 ----------------------------------------- *)
(* C11: a controller is constructed or updated only under a configuration  *)
(* with Hp >= Hu and Hp*Z, Hp*N and Hu*M all within MATRIX_MAXIMUM_SIZE:   *)
(* every other configuration is rejected when the header is compiled.      *)
C11_BadConfigRejected ==
    /\ phase \in {"built", "constructed", "updated"} =>
          /\ cfg.HP >= cfg.HU
          /\ cfg.HP * cfg.Z <= cfg.MAX
          /\ cfg.HP * cfg.N <= cfg.MAX
          /\ cfg.HU * cfg.M <= cfg.MAX
    /\ (phase # "source" /\ (cfg.HP < cfg.HU \/ cfg.HP * cfg.Z > cfg.MAX
                               \/ cfg.HP * cfg.N > cfg.MAX \/ cfg.HU * cfg.M > cfg.MAX))
          => phase = "rejected"

\* a configuration whose only fault is Hp*N above the capacity was rejected
C11_Witness ==
    /\ phase = "rejected"
    /\ cfg.HP >= cfg.HU /\ cfg.HP * cfg.Z <= cfg.MAX /\ cfg.HU * cfg.M <= cfg.MAX
    /\ cfg.HP * cfg.N > cfg.MAX

(* ------------------------- the matrix kernel on its own ---------------- *)
\* the operations applied in a row before the run ends
MaxKernelOps == 2

\* operands: invertible, a permutation, a zero row, upper triangular, a column,
\* a tall matrix, and an invalid matrix
KMatSet ==
    { IntMat(<<<<1, 2>>, <<3, 4>>>>),
      IntMat(<<<<0, 1>>, <<1, 0>>>>),
      IntMat(<<<<1, 2>>, <<0, 0>>>>),
      IntMat(<<<<2, 1>>, <<0, 1>>>>),
      IntMat(<<<<1>>, <<2>>>>),
      IntMat(<<<<3, 0>>, <<4, 0>>, <<0, 1>>>>),
      MInvalid }

KernelInit ==
    /\ kX \in KMatSet /\ kY \in KMatSet
    /\ kOp = "none" /\ kArg = <<>> /\ kRes = MInvalid /\ kRes2 = MInvalid /\ kN = 0
    /\ NoController /\ BuildDone

\* the left operand: the first operation takes kX, a later one the last result
Current == IF kOp = "none" THEN kX ELSE kRes

\* X op kY gave res (and res2)
KStep(o, arg, X, res, res2) ==
    /\ kOp' = o /\ kArg' = arg /\ kX' = X /\ kRes' = res /\ kRes2' = res2
    /\ kN' = kN + 1
    /\ UNCHANGED <<kY, mpcVars, buildVars>>

KConstruct ==
    /\ kN < MaxKernelOps
    /\ \E r \in {1, MATRIX_MAXIMUM_SIZE, MATRIX_MAXIMUM_SIZE + 1} :
       \E c \in {1, MATRIX_MAXIMUM_SIZE, MATRIX_MAXIMUM_SIZE + 1} :
          KStep("construct", <<r, c>>, Current, Construct(r, c), MInvalid)

KAdd ==
    /\ kN < MaxKernelOps
    /\ KStep("add", <<>>, Current, MAdd(Current, kY), MInvalid)

KSub ==
    /\ kN < MaxKernelOps
    /\ KStep("sub", <<>>, Current, MSub(Current, kY), MInvalid)

KMul ==
    /\ kN < MaxKernelOps
    /\ KStep("mul", <<>>, Current, MMul(Current, kY), MInvalid)

KScale ==
    /\ kN < MaxKernelOps
    /\ KStep("scale", <<2>>, Current, MScale(Current, RInt(2)), MInvalid)

KTranspose ==
    /\ kN < MaxKernelOps
    /\ KStep("transpose", <<>>, Current, Transpose(Current), MInvalid)

KInsert ==
    /\ kN < MaxKernelOps
    /\ \E dr \in 0..1 : \E dc \in 0..1 :
          KStep("insert", <<dr, dc>>, Current, InsertSubMatrix(Current, kY, dr, dc),
                MInvalid)

KInsertBlock ==
    /\ kN < MaxKernelOps
    /\ \E dr \in 0..1 : \E dc \in 0..1 : \E nr \in 1..2 : \E nc \in 1..2 :
          KStep("insertblock", <<dr, dc, nr, nc>>, Current,
                InsertSubMatrixBlock(Current, kY, dr, dc, nr, nc), MInvalid)

KInvers ==
    /\ kN < MaxKernelOps
    /\ KStep("invers", <<>>, Current, Invers(Current), MInvalid)

\* qr is QRDec of the left operand; a factorization the rationals cannot hold
\* is left out
KQRFrom(qr) == qr.exact /\ KStep("qr", <<>>, Current, qr.Qt, qr.R)

KQRDec ==
    /\ kN < MaxKernelOps
    /\ KQRFrom(QRDec(Current))

KBackSub ==
    /\ kN < MaxKernelOps
    /\ KStep("backsub", <<>>, Current, BackSubtitution(Current, kY), MInvalid)

KernelNext ==
    \/ KConstruct \/ KAdd \/ KSub \/ KMul \/ KScale \/ KTranspose
    \/ KInsert \/ KInsertBlock \/ KInvers \/ KQRDec \/ KBackSub

KernelSpec == KernelInit /\ [][KernelNext]_vars

(* ------------------------- C12 ----------------------------------------- *)
\* the operations that read kY as well
TwoOperands == {"add", "sub", "mul", "insert", "insertblock", "backsub"}

\* the last operation read an invalid matrix
ReadInvalid ==
    /\ kOp \notin {"none", "construct"}
    /\ ~bMatrixIsValid(kX) \/ (kOp \in TwoOperands /\ ~bMatrixIsValid(kY))

BlockRows == IF kOp = "insert" THEN kY.rows ELSE kArg[3]
BlockCols == IF kOp = "insert" THEN kY.cols ELSE kArg[4]
LeavesDestination ==
    kArg[1] + BlockRows > kX.rows \/ kArg[2] + BlockCols > kX.cols

\* a valid result of an insertion has the size of the destination and the
\* destination's entries outside the block
WritesInsideOnly ==
    /\ kRes.rows = kX.rows /\ kRes.cols = kX.cols
    /\ \A i \in 1..kRes.rows : \A j \in 1..kRes.cols :
          (i <= kArg[1] \/ i > kArg[1] + BlockRows
             \/ j <= kArg[2] \/ j > kArg[2] + BlockCols)
          => kRes.e[i][j] = kX.e[i][j]

RECURSIVE Det(_, _)
Minor(e, n, c) ==
    [i \in 1..(n - 1) |-> [j \in 1..(n - 1) |-> e[i + 1][IF j < c THEN j ELSE j + 1]]]
Cofactor(e, n, c) ==
    IF c % 2 = 1 THEN RMul(e[1][c], Det(Minor(e, n, c), n - 1))
    ELSE RNeg(RMul(e[1][c], Det(Minor(e, n, c), n - 1)))
Det(e, n) ==
    IF n = 1 THEN e[1][1]
    ELSE RSeqSum([c \in 1..n |-> Cofactor(e, n, c)])

InvertedSquare == kOp = "invers" /\ bMatrixIsValid(kX) /\ kX.rows = kX.cols
IdentityLike(X) == vSetIdentity(Construct(X.rows, X.cols))

(* C14: Invers of a singular square matrix returns an invalid matrix;      *)
(* Invers of an invertible matrix A returns a valid matrix whose products   *)
(* with A, on either side, are the identity.                               *)
C14_InverseOrInvalid ==
    InvertedSquare =>
        IF Det(kX.e, kX.rows) = RZero
        THEN ~bMatrixIsValid(kRes)
        ELSE /\ bMatrixIsValid(kRes)
             /\ MMul(kX, kRes) = IdentityLike(kX)
             /\ MMul(kRes, kX) = IdentityLike(kX)

\* an invertible matrix whose first column needs a row exchange
C14_Witness ==
    /\ InvertedSquare
    /\ kX.rows = 2 /\ kX.e[1][1] = RZero
    /\ bMatrixIsValid(kRes)
    /\ MMul(kX, kRes) = IdentityLike(kX)

(* ------------------------- C15 ----------------------------------------- *)
\* SP - CPSI*x - COMEGA*u of the matrices the last bUpdate received
FreeResponse == MAdd(MMul(mpc.CPSI, call.x), MMul(mpc.COMEGA, call.u))
EntryErr == MSub(call.SP, FreeResponse)

LastG == MMul(MMul(MScale(Transpose(mpc.CTHETA), RInt(2)), mpc.Q), EntryErr)
LastH == MAdd(MMul(MMul(Transpose(mpc.CTHETA), mpc.Q), mpc.CTHETA), mpc.R)
ZeroDU == vSetToZero(Construct(HUM, 1))

(* C16: after a naive bUpdate, if H = CTHETA'*Q*CTHETA + R has no valid    *)
(* inverse then DU is zero, the call returned false and u is as it was on  *)
(* entry; otherwise DU = 1/2 * H^-1 * G with G = 2*CTHETA'*Q*Err.          *)
C16_NaiveSolve ==
    (policy = "naive" /\ op = "update") =>
        IF ~bMatrixIsValid(Invers(LastH))
        THEN mpc.DU = ZeroDU /\ ret = FALSE /\ u = call.u
        ELSE mpc.DU = MScale(MMul(Invers(LastH), LastG), <<1, 2>>)

(* ------------------------- C17 ----------------------------------------- *)
\* H^-1 * CTHETA' * Q of the controller's members, all MPC_HU_LEN*SS_U_LEN rows
FullGain == MMul(MMul(Invers(LastH), Transpose(mpc.CTHETA)), mpc.Q)

(* C17: in the optimized policy, when H = CTHETA'*Q*CTHETA + R is          *)
(* invertible, XI_DU is the SS_U_LEN x MPC_HP_LEN*SS_Z_LEN matrix made of  *)
(* the first SS_U_LEN rows of H^-1 * CTHETA' * Q.                          *)
C17_GainIsFirstRows ==
    (policy = "opt" /\ bMatrixIsValid(Invers(LastH))) =>
        /\ IsShape(FullGain, HUM, HPZ)
        /\ IsShape(mpc.XI_DU, SS_U_LEN, HPZ)
        /\ \A i \in 1..SS_U_LEN : \A j \in 1..HPZ :
              mpc.XI_DU.e[i][j] = FullGain.e[i][j]

\* a re-initialization that left a nonzero gain, with nonzero rows of
\* H^-1 * CTHETA' * Q that are not persisted
C17_Witness ==
    /\ policy = "opt" /\ op = "reinit" /\ bMatrixIsValid(Invers(LastH))
    /\ \E j \in 1..HPZ : mpc.XI_DU.e[1][j] # RZero
    /\ \E i \in (SS_U_LEN + 1)..HUM : \E j \in 1..HPZ : FullGain.e[i][j] # RZero

(* ------------------------- C18 ----------------------------------------- *)
\* the plant of the last (re-)initialization has the configured sizes
SizedPlant ==
    /\ IsShape(args.A, SS_X_LEN, SS_X_LEN)
    /\ IsShape(args.B, SS_X_LEN, SS_U_LEN)
    /\ IsShape(args.C, SS_Z_LEN, SS_X_LEN)

\* entry (a, b) of the SS_Z_LEN x SS_U_LEN block (i, j) of CTHETA, and of row
\* block k of COMEGA; blocks are counted from 0
ThetaBlock(i, j, a, b) == mpc.CTHETA.e[i * SS_Z_LEN + a][j * SS_U_LEN + b]
OmegaBlock(k, a, b) == mpc.COMEGA.e[k * SS_Z_LEN + a][b]

Toeplitz ==
    /\ IsShape(mpc.COMEGA, HPZ, SS_U_LEN)
    /\ IsShape(mpc.CTHETA, HPZ, HUM)
    /\ \A i \in 0..(MPC_HP_LEN - 1) : \A j \in 0..(MPC_HU_LEN - 1) :
       \A a \in 1..SS_Z_LEN : \A b \in 1..SS_U_LEN :
          ThetaBlock(i, j, a, b) = IF i >= j THEN OmegaBlock(i - j, a, b) ELSE RZero

(* C18: after a (re-)initialization with a plant of the configured sizes,  *)
(* block (i, j) of CTHETA is block i - j of COMEGA for i >= j and zero for *)
(* i < j, whatever (re-)initializations came before.                       *)
C18_ThetaIsToeplitz == SizedPlant => Toeplitz

(* ------------------------- C19 ----------------------------------------- *)
\* A^k and A^0*B + ... + A^(k-1)*B, by their definitions
RECURSIVE MPow(_, _)
MPow(A, k) == IF k = 0 THEN vSetIdentity(A) ELSE MMul(MPow(A, k - 1), A)
RECURSIVE SigmaAB(_, _, _)
SigmaAB(A, B, k) ==
    IF k = 1 THEN B ELSE MAdd(SigmaAB(A, B, k - 1), MMul(MPow(A, k - 1), B))

\* row block k of X, of SS_Z_LEN rows; blocks are counted from 1
RowBlock(X, k) ==
    Mat(SS_Z_LEN, X.cols, LAMBDA a, b : X.e[(k - 1) * SS_Z_LEN + a][b])

PowerStacks ==
    /\ IsShape(mpc.CPSI, HPZ, SS_X_LEN)
    /\ IsShape(mpc.COMEGA, HPZ, SS_U_LEN)
    /\ \A k \in 1..MPC_HP_LEN :
          /\ RowBlock(mpc.CPSI, k) = MMul(args.C, MPow(args.A, k))
          /\ RowBlock(mpc.COMEGA, k) = MMul(args.C, SigmaAB(args.A, args.B, k))

(* C19: after a (re-)initialization with a plant A, B, C of the configured *)
(* sizes, row block k of CPSI is C*A^k and row block k of COMEGA is        *)
(* C*(A^0*B + ... + A^(k-1)*B), for every k in 1..MPC_HP_LEN.              *)
C19_StacksArePowers == SizedPlant => PowerStacks

(* ------------------------- C20 ----------------------------------------- *)
\* the prediction matrices of a controller
Prediction(m) == [CPSI |-> m.CPSI, COMEGA |-> m.COMEGA, CTHETA |-> m.CTHETA]

\* built from the last plant by folding C into every block (mpc_engl), and
\* through PSI, OMEGA, THETA and Cz
Folded == Prediction(vReInit_naive(MPCMembers, args.A, args.B, args.C, args.q, args.r))
ThroughCz == PredictionCz(args.A, args.B, args.C)

(* C20: for a plant A, B, C of the configured sizes, CPSI, COMEGA and      *)
(* CTHETA built by folding C into every block are valid and equal to those *)
(* built as Cz*PSI, Cz*OMEGA and Cz*THETA; the matrices a controller of    *)
(* the optimized or least-squares class holds are those of the folding     *)
(* construction, and a freshly constructed naive controller holds those of *)
(* the construction through Cz.                                            *)
C20_FoldedEqualsThroughCz ==
    SizedPlant =>
        /\ Folded = ThroughCz
        /\ IsShape(Folded.CPSI, HPZ, SS_X_LEN)
        /\ IsShape(Folded.COMEGA, HPZ, SS_U_LEN)
        /\ IsShape(Folded.CTHETA, HPZ, HUM)
        /\ policy # "naive" => Prediction(mpc) = Folded
        /\ (policy = "naive" /\ nReInit = 0) => Prediction(mpc) = ThroughCz

\* a controller built through Cz and re-initialized with a plant whose C has
\* two nonzero entries, so that every block mixes two rows of PSI
C20_Witness ==
    /\ policy # "naive" /\ op = "reinit" /\ SizedPlant
    /\ \A j \in 1..SS_X_LEN : args.C.e[1][j] # RZero
    /\ Prediction(mpc) = Folded
    /\ \E i \in 1..HPZ : \E j \in 1..HUM : mpc.CTHETA.e[i][j] # RZero

(* ------------------------- C21 ----------------------------------------- *)
\* [SQ*CTHETA; SR] of the controller's members, entry by entry: SQ*CTHETA in
\* rows 1..HPZ, SR in the rows below, zero in the columns neither reaches
WeightedTheta == MMul(mpc.SQ, mpc.CTHETA)
StackEntry(i, j) ==
    IF j > HUM THEN RZero
    ELSE IF i <= HPZ THEN WeightedTheta.e[i][j]
    ELSE mpc.SR.e[i - HPZ][j]
Stack == [rows |-> HPZ + HUM, cols |-> HPZ, valid |-> TRUE,
          e |-> [i \in 1..(HPZ + HUM) |-> [j \in 1..HPZ |-> StackEntry(i, j)]]]

UpperTriangular(X) ==
    \A i \in 1..X.rows : \A j \in 1..X.cols : i > j => X.e[i][j] = RZero

(* C21: in the least-squares policy, valid persisted factors satisfy       *)
(* Qt_L * GammaLeft = R_L with R_L upper triangular, where GammaLeft has   *)
(* SQ*CTHETA in its top rows and SR below it from row offset              *)
(* MPC_HP_LEN*SS_Z_LEN.                                                    *)
C21_FactorsOfStack ==
    (policy = "lsq" /\ bMatrixIsValid(mpc.Qt_L)) =>
        /\ IsShape(WeightedTheta, HPZ, HUM)
        /\ IsShape(mpc.Qt_L, HPZ + HUM, HPZ + HUM)
        /\ IsShape(mpc.R_L, HPZ + HUM, HPZ)
        /\ UpperTriangular(mpc.R_L)
        /\ MMul(mpc.Qt_L, Stack) = mpc.R_L

\* a re-initialization that left factors with a reflection in them
C21_Witness ==
    /\ policy = "lsq" /\ op = "reinit" /\ bMatrixIsValid(mpc.Qt_L)
    /\ mpc.Qt_L # vSetIdentity(mpc.Qt_L)
    /\ \E i \in 1..HUM : mpc.SR.e[i][i] # RZero
    /\ \E i \in 1..HUM : \E j \in (i + 1)..HUM : mpc.R_L.e[i][j] # RZero

(* ------------------------- C22 ----------------------------------------- *)
\* [SQ*Err; 0] of the last bUpdate, MPC_HP_LEN*SS_Z_LEN + MPC_HU_LEN*SS_U_LEN rows
WeightedErr == MMul(mpc.SQ, EntryErr)
Augmented ==
    IF ~bMatrixIsValid(WeightedErr) THEN MInvalid
    ELSE Mat(HPZ + HUM, 1,
             LAMBDA i, j : IF i <= HPZ THEN WeightedErr.e[i][1] ELSE RZero)

\* the first MPC_HU_LEN*SS_U_LEN rows of Qt_L*[SQ*Err; 0]
RotatedErr == MMul(mpc.Qt_L, Augmented)
LsqRight ==
    IF ~bMatrixIsValid(RotatedErr) THEN MInvalid
    ELSE Mat(HUM, 1, LAMBDA i, j : RotatedErr.e[i][1])

\* the leading MPC_HU_LEN*SS_U_LEN square block of R_L
LeadingR == Mat(HUM, HUM, LAMBDA i, j : mpc.R_L.e[i][j])

(* C22: after a least-squares bUpdate with valid stored factors, DU is the *)
(* result of back substitution of R1*DU = b, where R1 is the leading block *)
(* of R_L and b the first MPC_HU_LEN*SS_U_LEN rows of Qt_L*[SQ*Err; 0],    *)
(* and a valid DU satisfies that equation; with invalid factors DU is zero *)
(* and the call returned false.                                            *)
C22_LsqSolve ==
    (policy = "lsq" /\ op = "update") =>
        IF ~bMatrixIsValid(mpc.Qt_L)
        THEN mpc.DU = ZeroDU /\ ret = FALSE
        ELSE /\ mpc.DU = BackSubtitution(LeadingR, LsqRight)
             /\ bMatrixIsValid(mpc.DU) => MMul(LeadingR, mpc.DU) = LsqRight

(* ------------------------- C23 ----------------------------------------- *)
\* the matrices the program asked the constructor for
Declared == {l \in run.log : l.st.op = "decl"}

(* C23: under every configuration the header accepts, every matrix that    *)
(* the constructor, vReInit and bUpdate of the built class construct is    *)
(* asked for with at most MATRIX_MAXIMUM_SIZE rows and columns, the        *)
(* least-squares matrices of Hp*Z + Hu*M rows included.                    *)
C23_SizesWithinCapacity ==
    \A l \in Declared : l.st.n[1] <= cfg.MAX /\ l.st.n[2] <= cfg.MAX

(* ------------------------- C24 ----------------------------------------- *)
\* an insertion of a valid matrix into a valid matrix that gave an invalid one
OutOfRange(l) ==
    /\ l.st.op \in {"insert", "insertblock"}
    /\ l.into.valid /\ l.from.valid /\ ~l.res.valid

(* C24: under every configuration the header accepts, the least-squares    *)
(* class inserts SQ*CTHETA and SR into GammaLeft and takes the leading     *)
(* Hu*M block of R_L (and the blocks of Qt_L and Qt_LSQE) within the       *)
(* bounds of source and destination: no insertion makes an invalid matrix  *)
(* out of valid ones.                                                      *)
C24_InsertionsInRange ==
    unit = "lsq" => \A l \in run.log : ~OutOfRange(l)

(* ------------------------- C25 ----------------------------------------- *)
(* C25: with konfig.h as shipped (N = 4, M = 2, Z = 2, Hp = 7, Hu = 4,     *)
(* capacity 28) and arguments of the sizes the interface asks for, every   *)
(* statement of the constructor, vReInit and bUpdate of each of the three  *)
(* classes yields a valid matrix: the operands' dimensions agree, the      *)
(* insertions are in range and the sizes asked for are within capacity.    *)
C25_ShippedRunsClean ==
    (cfg = Shipped /\ phase \in {"constructed", "updated"}) =>
        /\ run.log # {}
        /\ \A l \in run.log : l.res.valid
        /\ \A l \in Declared : l.st.n[1] <= cfg.MAX /\ l.st.n[2] <= cfg.MAX

\* the shipped least-squares controller after bUpdate: GammaLeft is 22 x 14,
\* its factors 22 x 22 and 22 x 14, R1 8 x 8 and DU 8 x 1
C25_Witness ==
    /\ cfg = Shipped /\ phase = "updated" /\ unit = "lsq"
    /\ run.env["GammaLeft"] = Shape(22, 14)
    /\ run.env["Qt_L"] = Shape(22, 22) /\ run.env["R_L"] = Shape(22, 14)
    /\ run.env["R1"] = Shape(8, 8) /\ run.env["DU"] = Shape(8, 1)
    /\ run.env["u"] = Shape(2, 1)

(* ------------------------- C26 ----------------------------------------- *)
(* mpc_least_square_engl, MPC::bUpdate: Q2 is the leading Hp*Z block of    *)
(* the stored factor, the right-hand side the first Hu*M rows of           *)
(* Q2.Transpose() * (SQ * Err), written into the member DU, and R2 the     *)
(* leading block of the stored R                                           *)
SolveDU_lsq_engl(m, SP_, x_, u_) ==
    LET Err == ErrOf(m, SP_, x_, u_)
        Q2 == InsertSubMatrixAt(Construct(HPZ, HPZ), m.Qt_L, 0, 0, 0, 0, HPZ, HPZ)
        DUFULL2 == MMul(Transpose(Q2), MMul(m.SQ, Err))
        DU == InsertSubMatrixAt(m.DU, DUFULL2, 0, 0, 0, 0, HUM, 1)
        R2 == InsertSubMatrixAt(Construct(HUM, HUM), m.R_L, 0, 0, 0, 0, HUM, HUM)
    IN  BackSubtitution(R2, DU)

(* C26: on the same stored factors and the same Err the two least-squares  *)
(* bUpdate compute the same du: the first Hu*M rows of (first Hp*Z columns *)
(* of the stored factor) * SQ*Err, as in mpc_opt_engl, and the first Hu*M  *)
(* rows of (leading Hp*Z block of the stored factor)' * SQ*Err, as in      *)
(* mpc_least_square_engl, give the same solution.                          *)
C26_SameIncrement ==
    (policy = "lsq" /\ op = "update" /\ bMatrixIsValid(mpc.Qt_L) /\ SizedCall) =>
        SolveDU_lsq(mpc, call.SP, call.x, call.u)
            = SolveDU_lsq_engl(mpc, call.SP, call.x, call.u)

(* ------------------------- C27 ----------------------------------------- *)
\* mpc_least_square_engl, MPC::bUpdate
bUpdate_lsq_engl(m, SP_, x_, u_, junk) ==
    FinishDU_lsq(m, SP_, x_, u_, SolveDU_lsq_engl(m, SP_, x_, u_), junk)

\* bUpdate(c.SP, c.x, v) of the class p on the controller m
UpdateOf(p, m, c, v, junk) ==
    CASE p = "naive" -> bUpdate_naive(m, c.SP, c.x, v, junk)
      [] p = "opt" -> bUpdate_opt(m, c.SP, c.x, v)
      [] p = "lsq" -> bUpdate_lsq(m, c.SP, c.x, v, junk)
      [] p = "lsq_engl" -> bUpdate_lsq_engl(m, c.SP, c.x, v, junk)

\* the classes that keep the members of policy p: the two least-squares
\* classes keep the same factors
ClassesOf(p) == IF p = "lsq" THEN {"lsq", "lsq_engl"} ELSE {p}

\* the controller m with DU as the constructor leaves it
FreshDU(m) == [m EXCEPT !.DU = ZeroDU]

\* the return value and the control vector of an outcome of bUpdate
Outcome(r) == <<r.ret, r.u>>

\* the next bUpdate(c.SP, c.x, u) of class p returns what it would return had
\* no bUpdate run since the last (re-)initialization
HistoryFree(p, c, junk) ==
    Outcome(UpdateOf(p, mpc, c, u, junk)) = Outcome(UpdateOf(p, FreshDU(mpc), c, u, junk))

(* C27: what bUpdate returns and the u it leaves depend on the offline     *)
(* artifacts and on its SP, x and u only: whatever the earlier calls since *)
(* the last (re-)initialization left in DU, the next call returns what it  *)
(* returns on a controller whose DU no call has touched.                   *)
C27_HistoryFree ==
    \A p \in ClassesOf(policy), c \in CallSet, junk \in JunkSet : HistoryFree(p, c, junk)

(* ------------------------- C28 ----------------------------------------- *)
(* C28: in the naive class bUpdate with SP, x and u of the configured      *)
(* shapes returns whether H = CTHETA'*Q*CTHETA + R has an inverse, and no  *)
(* bUpdate changes that: between two re-initializations every such call    *)
(* returns the same value, whatever SP, x and u hold.                      *)
C28_SameVerdict ==
    [][(policy = "naive" /\ nUpdate' # nUpdate) =>
          /\ HInvertible(mpc') = HInvertible(mpc)
          /\ SizedCall' => ret' = HInvertible(mpc)]_vars

\* the second bUpdate since the last (re-)initialization succeeded as the first
\* would have, on a setpoint that moved u
C28_Witness ==
    /\ policy = "naive" /\ op = "update" /\ nUpdate >= 2
    /\ SizedCall /\ ret = TRUE /\ HInvertible(mpc)
    /\ u # call.u

(* ------------------------- C29 ----------------------------------------- *)
\* valid prediction matrices and a valid gain or factorization
Initialized ==
    /\ bMatrixIsValid(mpc.CPSI) /\ bMatrixIsValid(mpc.COMEGA)
    /\ bMatrixIsValid(mpc.CTHETA)
    /\ ~Degraded(policy, mpc)

\* SP = CPSI*x + COMEGA*u when the last bUpdate was entered
AtRest == EntryErr = Construct(HPZ, 1)

(* C29: in every class, when the controller is Initialized and bUpdate is  *)
(* entered with SP = CPSI*x + COMEGA*u, it returns true, the increment is  *)
(* zero and u is what it was on entry, so that the same SP and x with the  *)
(* u returned give a zero tracking error again, call after call.           *)
C29_RestIsFixedPoint ==
    (op = "update" /\ Initialized /\ AtRest) =>
        /\ ret = TRUE
        /\ du = Construct(SS_U_LEN, 1)
        /\ policy # "opt" => mpc.DU = ZeroDU
        /\ u = call.u
        /\ ErrOf(mpc, call.SP, call.x, u) = Construct(HPZ, 1)

====
